---- MODULE Spec2Model ----
(***************************************************************************)
(* Model of loris-crawler.py: the incremental Loris -> BIDS -> DataLad     *)
(* ingest script.  One run of the script is a sequence of steps (login,    *)
(* dataset init, manifest load, project list, manifest open, ingest loop,  *)
(* close, save); the manifest file and the dataset backend persist from    *)
(* one run to the next.                                                    *)
(*                                                                         *)
(* Strings that the code inspects character by character (ScanType, the    *)
(* project names that are sorted) are sequences of one-character strings;  *)
(* Str joins them into a TLA+ string when the code formats them.           *)
(*                                                                         *)
(* Inputs are bounded so that the manifest text written by one run stays   *)
(* below io.DEFAULT_BUFFER_SIZE: the buffered writer of f_out then writes  *)
(* to the file only on close() or at interpreter exit.  Path components    *)
(* (project, candidate, visit, scan type) are non-empty, contain no "/"    *)
(* and are not ".", so pathlib joins them without normalising anything.    *)
(***************************************************************************)
EXTENDS Integers, Sequences, FiniteSets, TLC

VARIABLES
    apiProjects,    \* keys of the "Projects" object, in the order the API returns them
    apiImages,      \* project name -> the "Images" list the API returns for it
    pc,             \* position of the script, or idle/done/aborted/killed
    err,            \* the exception that ended the run, "none" otherwise
    runs,           \* number of runs started so far
    args_get,       \* args.get of the current run
    TOKEN,          \* token of the current run (NoToken before login)
    ds_created,     \* DATASET_DIR/.datalad exists
    annex_headers,  \* token in git config annex.http-headers (NoToken when unset)
    mf_exists,      \* MANIFEST_OUT.exists()
    disk,           \* rows of the manifest file on disk
    fbuf,           \* rows f_out has passed on to its binary buffer (f_out.buffer)
    buf,            \* rows written to f_out and still pending in f_out itself
    wq,             \* the write(2) calls the current flush has still to make
    f_out,          \* state of the handle: unopened, open, closed, finalized, lost
    write_header,   \* write_header of the current run
    existing_files, \* the in-memory dedup set
    project_names,  \* sorted project names of the current run
    pi,             \* index of the current project in project_names
    images,         \* images of the current project
    ii,             \* index of the current record in images
    target,         \* target of the current record, as path components
    modality,       \* modality of the current record
    url,            \* url of the current record
    regLog,         \* backend: every successful addurl of every run, in order
    loaded,         \* target_path values loaded from the manifest by this run
    disk0,          \* rows of the manifest file when this run started
    reg0,           \* length of regLog when this run started
    mf0,            \* the manifest file existed when this run started
    getFailed,      \* backend: paths whose datalad get has failed, over all runs
    ops,            \* calls issued by the current run, by kind
    failedCall,     \* an addurl or get call of this run has failed
    prevDone,       \* the run before the current one ran to completion
    crashed         \* some run was killed (SIGKILL, power loss)

vars == <<apiProjects, apiImages, pc, err, runs, args_get, TOKEN, ds_created,
          annex_headers, mf_exists, disk, fbuf, buf, wq, f_out,
          write_header, existing_files, project_names, pi, images, ii, target, modality,
          url, regLog, loaded, disk0, reg0, mf0, getFailed, ops, failedCall,
          prevDone, crashed>>

(***************************************************************************)
(* Bounds                                                                  *)
(***************************************************************************)
MaxRuns == 2
MaxImages == 2

(***************************************************************************)
(* Strings                                                                 *)
(***************************************************************************)
UpperCase == <<"A","B","C","D","E","F","G","H","I","J","K","L","M",
               "N","O","P","Q","R","S","T","U","V","W","X","Y","Z">>
LowerCase == <<"a","b","c","d","e","f","g","h","i","j","k","l","m",
               "n","o","p","q","r","s","t","u","v","w","x","y","z">>
Digits == <<"0","1","2","3","4","5","6","7","8","9">>

\* The characters in code point order (digits < upper case < "_" < lower case).
CodeOrder == Digits \o UpperCase \o <<"_">> \o LowerCase

Ord(c) == CHOOSE i \in 1..Len(CodeOrder) : CodeOrder[i] = c

LowerChar(c) ==
    IF \E i \in 1..26 : UpperCase[i] = c
    THEN LowerCase[CHOOSE i \in 1..26 : UpperCase[i] = c]
    ELSE c

\* str.lower()
RECURSIVE Lower(_)
Lower(s) == IF s = <<>> THEN <<>> ELSE <<LowerChar(Head(s))>> \o Lower(Tail(s))

\* str.startswith(prefix)
StartsWith(s, prefix) ==
    /\ Len(s) >= Len(prefix)
    /\ SubSeq(s, 1, Len(prefix)) = prefix

RECURSIVE Str(_)
Str(s) == IF s = <<>> THEN "" ELSE Head(s) \o Str(Tail(s))

\* s < t for Python strings: lexicographic by code point
RECURSIVE StrLess(_, _)
StrLess(s, t) ==
    IF t = <<>> THEN FALSE
    ELSE IF s = <<>> THEN TRUE
    ELSE IF Head(s) # Head(t) THEN Ord(Head(s)) < Ord(Head(t))
    ELSE StrLess(Tail(s), Tail(t))

\* insert x into the sorted sequence q
RECURSIVE Insert(_, _)
Insert(x, q) ==
    IF q = <<>> THEN <<x>>
    ELSE IF StrLess(x, Head(q)) THEN <<x>> \o q
    ELSE <<Head(q)>> \o Insert(x, Tail(q))

\* the keys in the order the API returned them
Sorted_identity(q) == q

\* sorted(projects.keys())
RECURSIVE Sorted(_)
Sorted(q) == IF q = <<>> THEN <<>> ELSE Insert(Head(q), Sorted(Tail(q)))

\* str(Path): the components joined by "/"
RECURSIVE PathStr(_)
PathStr(parts) ==
    IF Len(parts) = 1 THEN parts[1]
    ELSE parts[1] \o "/" \o PathStr(Tail(parts))

(***************************************************************************)
(* 6. BIDS path                                                            *)
(***************************************************************************)
T1 == <<"t","1">>
T2 == <<"t","2">>
FIELDMAP == <<"f","i","e","l","d","m","a","p">>
DWI == <<"d","w","i">>

\* the (modality, suffix) chosen by the if/elif chain on the lower-cased scan type
Rule(scan) ==
    IF StartsWith(scan, T1) THEN <<"anat", "T1w">>
    ELSE IF StartsWith(scan, T2) THEN <<"anat", "T2w">>
    ELSE IF StartsWith(scan, FIELDMAP) THEN <<"fmap", "epi">>
    ELSE IF StartsWith(scan, DWI) THEN <<"dwi", "dwi">>
    ELSE <<"misc", Str(scan)>>

\* bids_path(img): the relative path as path components, and the modality
bids_path(img) ==
    LET subj == "sub-" \o img.Candidate
        ses == "ses-" \o img.Visit
        scan == Lower(img.ScanType)
        ms == Rule(scan)
        bids_dir == <<subj, ses, ms[1]>>
        bids_name == subj \o "_" \o ses \o "_" \o ms[2] \o ".mnc"
    IN  <<bids_dir \o <<bids_name>>, ms[1]>>

\* the project prefix twice
TargetPath_dupProject(project, rel_target) ==
    <<"data", Str(project), Str(project)>> \o rel_target

\* target = Path("data") / project / rel_target, as path components
TargetPath(project, rel_target) == <<"data", Str(project)>> \o rel_target

API_BASE == "http://x/api"

(***************************************************************************)
(* The remote API                                                          *)
(***************************************************************************)
loris == <<"l","o","r","i","s">>
Zoo == <<"Z","o","o">>
ProjectNames == {loris, Zoo}

\* The records the API may return in the pipeline runs: recA and recB resolve
\* to the same destination path with different links, recC to another path.
recA == [Candidate |-> "123", Visit |-> "V1", ScanType |-> <<"T","2">>, Link |-> "/a"]
recB == [Candidate |-> "123", Visit |-> "V1", ScanType |-> <<"t","2","x">>, Link |-> "/b"]
recC == [Candidate |-> "123", Visit |-> "V1", ScanType |-> <<"L","o">>, Link |-> "/c"]
Records == {recA, recB, recC}

ImageLists == UNION {[1..n -> Records] : n \in 0..MaxImages}

\* the records the path resolver is exercised on
Candidates == {"123", "007"}
Visits == {"V1", "V2"}
ScanTypes ==
    { <<"t","1">>,
      <<"T","1","_","M","P","R","A","G","E">>,
      <<"T","2">>,
      <<"t","2","_","f","l","a","i","r">>,
      <<"F","i","e","l","d","M","a","p">>,
      <<"f","i","e","l","d","m","a","p","_","A","P">>,
      <<"f","i","e","l","d">>,
      <<"D","W","I">>,
      <<"d","w","i","_","b","1","0","0","0">>,
      <<"d","w">>,
      <<"t">>,
      <<"x","t","1">>,
      <<"l","o","c","a","l","i","z","e","r">>,
      <<"L","o","c","a","l","i","z","e","r">> }
ResolverRecords ==
    [Candidate : Candidates, Visit : Visits, ScanType : ScanTypes,
     Link : {"/a"}]

\* the key sequences of a JSON object: no key twice
ProjectLists ==
    {q \in UNION {[1..n -> ProjectNames] : n \in 0..Cardinality(ProjectNames)} :
        \A i, j \in 1..Len(q) : q[i] = q[j] => i = j}

Range(q) == {q[i] : i \in 1..Len(q)}

\* the server issues a fresh token at every login
Token(n) == <<"tk", n>>

\* no token yet, no annex.http-headers configured
NoToken == <<>>

(***************************************************************************)
(* 4. / 7. The manifest                                                    *)
(***************************************************************************)
\* fieldnames of the csv.DictWriter
Header == <<"project", "candidate", "visit", "filename", "modality",
            "target_path", "url">>

\* the dict passed to writer.writerow, in fieldnames order
ManifestRow(project, img, tgt, mod, u) ==
    <<Str(project), img.Candidate, img.Visit, tgt[Len(tgt)], mod,
      PathStr(tgt), u>>

\* csv.DictReader: the first row of the file gives the field names
FieldNames(rows) == IF rows = <<>> THEN <<>> ELSE Head(rows)

DataRows(rows) == IF rows = <<>> THEN <<>> ELSE Tail(rows)

HasKey(fieldnames, key) == \E i \in 1..Len(fieldnames) : fieldnames[i] = key

\* row[key] of the dict DictReader builds: a row shorter than the field
\* names has the missing fields set to None
DictGet(fieldnames, row, key) ==
    LET i == CHOOSE k \in 1..Len(fieldnames) :
                 /\ fieldnames[k] = key
                 /\ \A m \in (k+1)..Len(fieldnames) : fieldnames[m] # key
    IN  IF i <= Len(row) THEN row[i] ELSE "None"

\* row["target_path"] raises KeyError on the first data row when the first
\* row of the file does not name the column
LoadRaises(rows) ==
    /\ DataRows(rows) # <<>>
    /\ ~HasKey(FieldNames(rows), "target_path")

\* the load loop reading the url column
LoadSet_url(rows) ==
    {DictGet(FieldNames(rows), DataRows(rows)[i], "url") :
        i \in 1..Len(DataRows(rows))}

\* the set built by the load loop
LoadSet(rows) ==
    {DictGet(FieldNames(rows), DataRows(rows)[i], "target_path") :
        i \in 1..Len(DataRows(rows))}

\* if str(target) in existing_files
AlreadyRegistered_byUrl(tgt, u, ef) == u \in ef
AlreadyRegistered(tgt, u, ef) == PathStr(tgt) \in ef

\* f_out = MANIFEST_OUT.open("a", newline=""): a text file with the default
\* buffering. f_out keeps the encoded rows pending until more than ChunkSize
\* bytes would be pending, then passes them to its binary buffer, which
\* holds up to BufferSize bytes (the block size of the file system) and
\* writes to the file what does not fit.
ChunkSize == 8192
BufferSize == 4096

\* bytes of a row as csv.writer writes it: the fields (none of them needs
\* quoting), the commas between them and "\r\n"
RECURSIVE FieldBytes(_)
FieldBytes(r) == IF r = <<>> THEN 0 ELSE Len(Head(r)) + FieldBytes(Tail(r))
RowBytes(r) == FieldBytes(r) + (Len(r) - 1) + 2
RECURSIVE Bytes(_)
Bytes(rows) ==
    IF rows = <<>> THEN 0 ELSE RowBytes(Head(rows)) + Bytes(Tail(rows))

\* f_out.buffer.write(data) on the state st = [wq, fbuf, buf] of f_out:
\* what does not fit is written by write(2), the buffer first
BufferedWrite(st, data) ==
    IF Bytes(data) <= BufferSize - Bytes(st.fbuf)
    THEN [st EXCEPT !.fbuf = @ \o data]
    ELSE IF Bytes(data) > BufferSize
    THEN [st EXCEPT !.wq = @ \o (IF st.fbuf = <<>> THEN <<>> ELSE <<st.fbuf>>)
                              \o <<data>>,
                    !.fbuf = <<>>]
    ELSE [st EXCEPT !.wq = Append(@, st.fbuf), !.fbuf = data]

\* f_out passes its pending rows on
TextFlush(st) ==
    IF st.buf = <<>> THEN st
    ELSE [BufferedWrite(st, st.buf) EXCEPT !.buf = <<>>]

\* f_out.write(row), as issued by writer.writerow and writer.writeheader
TextWrite(st, row) ==
    LET s1 == IF Bytes(st.buf) + RowBytes(row) > ChunkSize
              THEN TextFlush(st) ELSE st
        s2 == [s1 EXCEPT !.buf = Append(@, row)]
    IN  IF Bytes(s2.buf) >= ChunkSize THEN TextFlush(s2) ELSE s2

RECURSIVE TextWriteAll(_, _)
TextWriteAll(st, rows) ==
    IF rows = <<>> THEN st
    ELSE TextWriteAll(TextWrite(st, Head(rows)), Tail(rows))

\* f_out.close(), also made when the interpreter exits: the write(2) calls
\* that empty both buffers
CloseWrites(st) ==
    LET s1 == TextFlush(st)
    IN  s1.wq \o (IF s1.fbuf = <<>> THEN <<>> ELSE <<s1.fbuf>>)

\* the two buffers of f_out, no write(2) under way
FileState == [wq |-> <<>>, fbuf |-> fbuf, buf |-> buf]

(***************************************************************************)
(* Ghost bookkeeping                                                       *)
(***************************************************************************)
NoOps == [list |-> 0, skip |-> 0, mkdir |-> 0, addurl |-> 0, row |-> 0,
          get |-> 0, save |-> 0]

Bump(f) == [ops EXCEPT ![f] = @ + 1]

Stopped == {"idle", "done", "aborted", "killed"}
Running == {"login", "init", "config", "auth", "load", "projects", "open",
            "fetch", "record", "addurl", "write", "writing", "get", "closing",
            "save", "saved", "raising", "exiting"}

remote == <<apiProjects, apiImages>>
backend == <<ds_created, annex_headers, regLog>>
file == <<mf_exists, disk, fbuf, buf, wq, f_out, write_header>>
loopvars == <<project_names, pi, images, ii>>
recvars == <<target, modality, url>>
ghost == <<loaded, disk0, reg0, mf0, getFailed, prevDone, crashed>>

\* number of records the API returns over the projects of q
RECURSIVE TotalImages(_, _)
TotalImages(q, f) ==
    IF q = <<>> THEN 0 ELSE Len(f[Head(q)]) + TotalImages(Tail(q), f)

TypeOK ==
    /\ apiProjects \in ProjectLists
    /\ pc \in Stopped \cup Running
    /\ runs \in 0..MaxRuns
    /\ args_get \in BOOLEAN
    /\ mf_exists \in BOOLEAN
    /\ f_out \in {"unopened", "open", "closed", "finalized", "lost"}

(***************************************************************************)
(* Initial state: nothing has run, the dataset directory is empty.         *)
(***************************************************************************)
Fresh ==
    /\ pc = "idle"
    /\ err = "none"
    /\ runs = 0
    /\ args_get = FALSE
    /\ TOKEN = NoToken
    /\ ds_created = FALSE
    /\ annex_headers = NoToken
    /\ fbuf = <<>>
    /\ buf = <<>>
    /\ wq = <<>>
    /\ f_out = "unopened"
    /\ write_header = FALSE
    /\ existing_files = {}
    /\ project_names = <<>>
    /\ pi = 0
    /\ images = <<>>
    /\ ii = 0
    /\ target = <<>>
    /\ modality = ""
    /\ url = ""
    /\ regLog = <<>>
    /\ loaded = {}
    /\ disk0 = disk
    /\ mf0 = mf_exists
    /\ reg0 = 0
    /\ getFailed = {}
    /\ ops = NoOps
    /\ failedCall = FALSE
    /\ prevDone = FALSE
    /\ crashed = FALSE

\* the API serves any project list and at most MaxImages records in all
Init ==
    /\ apiProjects \in ProjectLists
    /\ apiImages \in [Range(apiProjects) -> ImageLists]
    /\ TotalImages(apiProjects, apiImages) <= MaxImages
    /\ mf_exists = FALSE
    /\ disk = <<>>
    /\ Fresh

\* the API serves one project with one record, of any scan type
InitResolve ==
    /\ \E p \in ProjectNames, r \in ResolverRecords :
          /\ apiProjects = <<p>>
          /\ apiImages = [q \in {p} |-> <<r>>]
    /\ mf_exists = FALSE
    /\ disk = <<>>
    /\ Fresh

(***************************************************************************)
(* How a run ends early                                                    *)
(***************************************************************************)
\* An uncaught exception: the call has failed and the interpreter starts to
\* exit; it finalizes f_out, which has its buffers to write to the file.
Raise(e) ==
    /\ pc' = "exiting"
    /\ err' = e
    /\ wq' = IF f_out = "open" THEN CloseWrites(FileState) ELSE <<>>
    /\ fbuf' = <<>>
    /\ buf' = <<>>
    /\ UNCHANGED <<disk, f_out>>

\* The process is killed: what f_out still buffers, and what a flush has
\* not yet written, never reaches the file.
Kill ==
    /\ pc \in Running
    /\ pc' = "killed"
    /\ fbuf' = <<>>
    /\ buf' = <<>>
    /\ wq' = <<>>
    /\ f_out' = IF f_out = "open" THEN "lost" ELSE f_out
    /\ crashed' = TRUE
    /\ UNCHANGED <<remote, backend, loopvars, recvars, err, runs, args_get,
                   TOKEN, mf_exists, disk, write_header, existing_files,
                   loaded, disk0, reg0, mf0, getFailed, prevDone, ops,
                   failedCall>>

(***************************************************************************)
(* 0. The script is started                                                *)
(***************************************************************************)
StartRun ==
    /\ pc \in Stopped
    /\ runs < MaxRuns
    /\ pc' = "login"
    /\ err' = "none"
    /\ runs' = runs + 1
    /\ args_get' \in BOOLEAN
    /\ TOKEN' = NoToken
    /\ fbuf' = <<>>
    /\ buf' = <<>>
    /\ wq' = <<>>
    /\ f_out' = "unopened"
    /\ write_header' = FALSE
    /\ existing_files' = {}
    /\ project_names' = <<>>
    /\ pi' = 0
    /\ images' = <<>>
    /\ ii' = 0
    /\ target' = <<>>
    /\ modality' = ""
    /\ url' = ""
    /\ loaded' = {}
    /\ disk0' = disk
    /\ reg0' = Len(regLog)
    /\ mf0' = mf_exists
    /\ ops' = NoOps
    /\ failedCall' = FALSE
    /\ prevDone' = (pc = "done")
    /\ UNCHANGED <<remote, backend, mf_exists, disk, crashed, getFailed>>

(***************************************************************************)
(* 1. Login                                                                *)
(***************************************************************************)
LoginOk ==
    /\ pc = "login"
    /\ TOKEN' = Token(runs)
    /\ pc' = "init"
    /\ UNCHANGED <<remote, backend, file, loopvars, recvars, ghost, err, runs,
                   args_get, existing_files, ops, failedCall>>

\* raise_for_status() raises, or the response carries no (or an empty) token
LoginFails ==
    /\ pc = "login"
    /\ \E e \in {"HTTPError", "RuntimeError"} : Raise(e)
    /\ UNCHANGED <<remote, backend, loopvars, recvars, ghost, runs, args_get,
                   TOKEN, mf_exists, write_header, existing_files, ops,
                   failedCall>>

(***************************************************************************)
(* 2. / 3. DataLad dataset and git-annex HTTP auth                         *)
(***************************************************************************)
\* DATASET_DIR.mkdir; datalad create unless DATASET_DIR/.datalad exists
CreateDataset ==
    /\ pc = "init"
    /\ ds_created' = TRUE
    /\ pc' = "config"
    /\ UNCHANGED <<remote, file, loopvars, recvars, ghost, annex_headers,
                   regLog, err, runs, args_get, TOKEN, existing_files, ops,
                   failedCall>>

\* git config annex.security.allowed-http-addresses all
ConfigAllowedAddresses ==
    /\ pc = "config"
    /\ pc' = "auth"
    /\ UNCHANGED <<remote, backend, file, loopvars, recvars, ghost, err, runs,
                   args_get, TOKEN, existing_files, ops, failedCall>>

\* the call left out
ConfigHttpHeaders_noAuth ==
    /\ pc = "auth"
    /\ pc' = "load"
    /\ UNCHANGED <<remote, backend, file, loopvars, recvars, ghost, err, runs,
                   args_get, TOKEN, existing_files, ops, failedCall>>

\* git config annex.http-headers "Authorization: Bearer {TOKEN}"
ConfigHttpHeaders ==
    /\ pc = "auth"
    /\ annex_headers' = TOKEN
    /\ pc' = "load"
    /\ UNCHANGED <<remote, file, loopvars, recvars, ghost, ds_created, regLog,
                   err, runs, args_get, TOKEN, existing_files, ops,
                   failedCall>>

\* datalad create fails, or one of the git config calls fails
InitDatasetFails ==
    /\ \/ pc = "init" /\ ~ds_created
       \/ pc \in {"config", "auth"}
    /\ Raise("CalledProcessError")
    /\ UNCHANGED <<remote, backend, loopvars, recvars, ghost, runs, args_get,
                   TOKEN, mf_exists, write_header, existing_files, ops,
                   failedCall>>

(***************************************************************************)
(* 4. Load the manifest                                                    *)
(***************************************************************************)
LoadManifest ==
    /\ pc = "load"
    /\ IF mf_exists /\ LoadRaises(disk)
       THEN /\ Raise("KeyError")
            /\ UNCHANGED <<existing_files, loaded>>
       ELSE /\ existing_files' = IF mf_exists THEN LoadSet(disk) ELSE {}
            /\ loaded' = existing_files'
            /\ pc' = "projects"
            /\ UNCHANGED <<err, disk, fbuf, buf, wq, f_out>>
    /\ UNCHANGED <<remote, backend, loopvars, recvars, disk0, reg0, mf0,
                   getFailed, prevDone, crashed, runs, args_get, TOKEN, mf_exists, write_header,
                   ops, failedCall>>

(***************************************************************************)
(* 5. Project list                                                         *)
(***************************************************************************)
\* the test for an empty project collection left out
FetchProjects_noCheck ==
    /\ pc = "projects"
    /\ project_names' = Sorted(apiProjects)
    /\ pc' = "open"
    /\ UNCHANGED <<remote, backend, file, recvars, ghost, pi, images, ii, err,
                   runs, args_get, TOKEN, existing_files, ops, failedCall>>

FetchProjects ==
    /\ pc = "projects"
    /\ IF apiProjects = <<>>
       THEN /\ Raise("RuntimeError")
            /\ UNCHANGED project_names
       ELSE /\ project_names' = Sorted(apiProjects)
            /\ pc' = "open"
            /\ UNCHANGED <<err, disk, fbuf, buf, wq, f_out>>
    /\ UNCHANGED <<remote, backend, recvars, ghost, pi, images, ii, runs,
                   args_get, TOKEN, mf_exists, write_header, existing_files,
                   ops, failedCall>>

FetchProjectsFails ==
    /\ pc = "projects"
    /\ Raise("HTTPError")
    /\ UNCHANGED <<remote, backend, loopvars, recvars, ghost, runs, args_get,
                   TOKEN, mf_exists, write_header, existing_files, ops,
                   failedCall>>

(***************************************************************************)
(* 7. Open the manifest for appending                                      *)
(***************************************************************************)
\* if write_header: writer.writeheader()
HeaderRows_never(wh) == <<>>
HeaderRows(wh) == IF wh THEN <<Header>> ELSE <<>>

\* mode "w" instead of "a": the file is emptied
OpenManifest_truncate ==
    /\ pc = "open"
    /\ write_header' = ~mf_exists
    /\ mf_exists' = TRUE
    /\ disk' = <<>>
    /\ f_out' = "open"
    /\ LET st == TextWriteAll(FileState, HeaderRows(write_header'))
       IN  /\ wq' = st.wq
           /\ fbuf' = st.fbuf
           /\ buf' = st.buf
    /\ pi' = 1
    /\ pc' = "fetch"
    /\ UNCHANGED <<remote, backend, recvars, ghost, project_names, images, ii,
                   err, runs, args_get, TOKEN, existing_files, ops,
                   failedCall>>

\* write_header, MANIFEST_OUT.open("a"), writer.writeheader(): the header
\* is shorter than the buffers, no write(2) is made
OpenManifest ==
    /\ pc = "open"
    /\ write_header' = ~mf_exists
    /\ mf_exists' = TRUE
    /\ f_out' = "open"
    /\ LET st == TextWriteAll(FileState, HeaderRows(write_header'))
       IN  /\ wq' = st.wq
           /\ fbuf' = st.fbuf
           /\ buf' = st.buf
    /\ pi' = 1
    /\ pc' = "fetch"
    /\ UNCHANGED <<remote, backend, recvars, ghost, project_names, images, ii,
                   disk, err, runs, args_get, TOKEN, existing_files, ops,
                   failedCall>>

(***************************************************************************)
(* 8. Ingest loop by project                                               *)
(***************************************************************************)
project == project_names[pi]
img == images[ii]

\* where the loop goes once the current record is finished
NextPc == IF ii < Len(images) THEN "record" ELSE "fetch"
NextII == IF ii < Len(images) THEN ii + 1 ELSE ii
NextPI == IF ii < Len(images) THEN pi ELSE pi + 1

\* the record's url, target and modality
RecUrl(im) == API_BASE \o im.Link
RecTarget(p, im) == TargetPath(p, bids_path(im)[1])
RecModality(im) == bids_path(im)[2]

Resolve ==
    /\ url' = RecUrl(img)
    /\ target' = RecTarget(project, img)
    /\ modality' = RecModality(img)

\* requests.get(.../projects/{project}/images) returns the list
FetchImages ==
    /\ pc = "fetch"
    /\ pi <= Len(project_names)
    /\ images' = apiImages[project]
    /\ ops' = Bump("list")
    /\ IF images' = <<>>
       THEN /\ pi' = pi + 1
            /\ pc' = "fetch"
            /\ UNCHANGED ii
       ELSE /\ ii' = 1
            /\ pc' = "record"
            /\ UNCHANGED pi
    /\ UNCHANGED <<remote, backend, file, recvars, ghost, project_names, err,
                   runs, args_get, TOKEN, existing_files, failedCall>>

FetchImagesFails ==
    /\ pc = "fetch"
    /\ pi <= Len(project_names)
    /\ ops' = Bump("list")
    /\ Raise("HTTPError")
    /\ UNCHANGED <<remote, backend, loopvars, recvars, ghost, runs, args_get,
                   TOKEN, mf_exists, write_header, existing_files,
                   failedCall>>

\* the dedup test placed after the registration steps: datalad get still runs
SkipRecord_materialize ==
    /\ pc = "record"
    /\ Resolve
    /\ AlreadyRegistered(target', url', existing_files)
    /\ ops' = Bump("skip")
    /\ IF args_get
       THEN /\ pc' = "get"
            /\ UNCHANGED <<ii, pi>>
       ELSE /\ pc' = NextPc
            /\ ii' = NextII
            /\ pi' = NextPI
    /\ UNCHANGED <<remote, backend, file, ghost, project_names, images, err,
                   runs, args_get, TOKEN, existing_files, failedCall>>

\* the destination path is in existing_files: continue
SkipRecord ==
    /\ pc = "record"
    /\ Resolve
    /\ AlreadyRegistered(target', url', existing_files)
    /\ ops' = Bump("skip")
    /\ pc' = NextPc
    /\ ii' = NextII
    /\ pi' = NextPI
    /\ UNCHANGED <<remote, backend, file, ghost, project_names, images, err,
                   runs, args_get, TOKEN, existing_files, failedCall>>

\* the destination path is new: target_abs.parent.mkdir
Mkdir ==
    /\ pc = "record"
    /\ Resolve
    /\ ~AlreadyRegistered(target', url', existing_files)
    /\ ops' = Bump("mkdir")
    /\ pc' = "addurl"
    /\ UNCHANGED <<remote, backend, file, loopvars, ghost, err, runs,
                   args_get, TOKEN, existing_files, failedCall>>

\* git annex addurl succeeds
Addurl ==
    /\ pc = "addurl"
    /\ ops' = Bump("addurl")
    /\ regLog' = Append(regLog, [path |-> PathStr(target), url |-> url])
    /\ pc' = "write"
    /\ UNCHANGED <<remote, file, loopvars, recvars, ghost, ds_created,
                   annex_headers, err, runs, args_get, TOKEN, existing_files,
                   failedCall>>

\* check=False: the failure of addurl is not noticed
AddurlFails_unchecked ==
    /\ pc = "addurl"
    /\ ops' = Bump("addurl")
    /\ failedCall' = TRUE
    /\ pc' = "write"
    /\ UNCHANGED <<remote, backend, file, loopvars, recvars, ghost, err, runs,
                   args_get, TOKEN, existing_files>>

\* writer.writerow placed before git annex addurl
AddurlFails_rowWritten ==
    /\ pc = "addurl"
    /\ ops' = [ops EXCEPT !.addurl = @ + 1, !.row = @ + 1]
    /\ failedCall' = TRUE
    /\ pc' = "raising"
    /\ buf' = Append(buf, ManifestRow(project, img, target, modality, url))
    /\ existing_files' = existing_files \cup {PathStr(target)}
    /\ UNCHANGED <<remote, backend, loopvars, recvars, ghost, err, runs,
                   args_get, TOKEN, mf_exists, disk, fbuf, wq, f_out,
                   write_header>>

\* git annex addurl exits non-zero: the script, waiting in subprocess.run,
\* has yet to raise
AddurlFails ==
    /\ pc = "addurl"
    /\ ops' = Bump("addurl")
    /\ failedCall' = TRUE
    /\ pc' = "raising"
    /\ UNCHANGED <<remote, backend, file, loopvars, recvars, ghost, err, runs,
                   args_get, TOKEN, existing_files>>

\* existing_files.add(str(target)) once writer.writerow has returned, and
\* on to datalad get or to the next record
RowWritten ==
    /\ existing_files' = existing_files \cup {PathStr(target)}
    /\ ops' = Bump("row")
    /\ IF args_get
       THEN /\ pc' = "get"
            /\ UNCHANGED <<ii, pi>>
       ELSE /\ pc' = NextPc
            /\ ii' = NextII
            /\ pi' = NextPI

\* existing_files.add left out
WriteRow_noAdd ==
    /\ pc = "write"
    /\ LET st == TextWrite(FileState,
                            ManifestRow(project, img, target, modality, url))
       IN  /\ wq' = st.wq
           /\ fbuf' = st.fbuf
           /\ buf' = st.buf
    /\ ops' = Bump("row")
    /\ IF args_get
       THEN /\ pc' = "get"
            /\ UNCHANGED <<ii, pi>>
       ELSE /\ pc' = NextPc
            /\ ii' = NextII
            /\ pi' = NextPI
    /\ UNCHANGED <<remote, backend, recvars, ghost, project_names, images,
                   mf_exists, disk, f_out, write_header, err, runs, args_get,
                   TOKEN, existing_files, failedCall>>

\* writer.writerow(...): the row goes to the buffers of f_out; when they
\* overflow, write(2) calls follow before writerow returns
WriteRow ==
    /\ pc = "write"
    /\ LET st == TextWrite(FileState,
                            ManifestRow(project, img, target, modality, url))
       IN  /\ wq' = st.wq
           /\ fbuf' = st.fbuf
           /\ buf' = st.buf
    /\ IF wq' = <<>>
       THEN RowWritten
       ELSE /\ pc' = "writing"
            /\ UNCHANGED <<existing_files, ops, ii, pi>>
    /\ UNCHANGED <<remote, backend, recvars, ghost, project_names, images,
                   mf_exists, disk, f_out, write_header, err, runs, args_get,
                   TOKEN, failedCall>>

\* datalad get succeeds
Materialize ==
    /\ pc = "get"
    /\ ops' = Bump("get")
    /\ pc' = NextPc
    /\ ii' = NextII
    /\ pi' = NextPI
    /\ UNCHANGED <<remote, backend, file, recvars, ghost, project_names,
                   images, err, runs, args_get, TOKEN, existing_files,
                   failedCall>>

\* check=False: the failure of datalad get is not noticed
MaterializeFails_unchecked ==
    /\ pc = "get"
    /\ ops' = Bump("get")
    /\ failedCall' = TRUE
    /\ getFailed' = getFailed \cup {PathStr(target)}
    /\ pc' = NextPc
    /\ ii' = NextII
    /\ pi' = NextPI
    /\ UNCHANGED <<remote, backend, file, recvars, loaded, disk0, reg0, mf0,
                   prevDone, crashed, project_names, images, err, runs,
                   args_get, TOKEN, existing_files>>

\* writer.writerow placed after datalad get: no row when get fails
MaterializeFails_rowAfterGet ==
    /\ pc = "get"
    /\ ops' = Bump("get")
    /\ failedCall' = TRUE
    /\ getFailed' = getFailed \cup {PathStr(target)}
    /\ pc' = "raising"
    /\ buf' = SubSeq(fbuf \o buf, 1, Len(fbuf \o buf) - 1)
    /\ fbuf' = <<>>
    /\ UNCHANGED <<remote, backend, loopvars, recvars, loaded, disk0, reg0,
                   mf0, prevDone, crashed, err, runs, args_get, TOKEN,
                   mf_exists, disk, wq, f_out, write_header, existing_files>>

\* datalad get exits non-zero: the script, waiting in subprocess.run, has
\* yet to raise
MaterializeFails ==
    /\ pc = "get"
    /\ ops' = Bump("get")
    /\ failedCall' = TRUE
    /\ getFailed' = getFailed \cup {PathStr(target)}
    /\ pc' = "raising"
    /\ UNCHANGED <<remote, backend, file, loopvars, recvars, loaded, disk0,
                   reg0, mf0, prevDone, crashed, err, runs, args_get, TOKEN,
                   existing_files>>

\* check=True: subprocess.run raises CalledProcessError for the child that
\* exited non-zero
RaiseCalledProcessError ==
    /\ pc = "raising"
    /\ Raise("CalledProcessError")
    /\ UNCHANGED <<remote, backend, loopvars, recvars, ghost, runs, args_get,
                   TOKEN, mf_exists, write_header, existing_files, ops,
                   failedCall>>

\* f_out.close() after the loop: the buffers are to be written
CloseManifest ==
    /\ pc = "fetch"
    /\ pi > Len(project_names)
    /\ wq' = CloseWrites(FileState)
    /\ fbuf' = <<>>
    /\ buf' = <<>>
    /\ pc' = "closing"
    /\ UNCHANGED <<remote, backend, loopvars, recvars, ghost, mf_exists, disk,
                   f_out, write_header, err, runs, args_get, TOKEN,
                   existing_files, ops, failedCall>>

\* one write(2) call of writer.writerow, of f_out.close() or of the
\* finalization of f_out at exit
SysWrite ==
    /\ pc \in {"writing", "closing", "exiting"}
    /\ wq # <<>>
    /\ disk' = disk \o Head(wq)
    /\ wq' = Tail(wq)
    /\ UNCHANGED <<remote, backend, loopvars, recvars, ghost, mf_exists, fbuf,
                   buf, f_out, write_header, pc, err, runs, args_get, TOKEN,
                   existing_files, ops, failedCall>>

\* the flush is over: writer.writerow or f_out.close() returns, or the
\* process ends with the traceback
Finish ==
    /\ pc \in {"writing", "closing", "exiting"}
    /\ wq = <<>>
    /\ IF pc = "writing"
       THEN /\ RowWritten
            /\ UNCHANGED f_out
       ELSE /\ pc' = IF pc = "closing" THEN "save" ELSE "aborted"
            /\ f_out' = IF pc = "closing" THEN "closed"
                         ELSE IF f_out = "open" THEN "finalized" ELSE f_out
            /\ UNCHANGED <<existing_files, ops, ii, pi>>
    /\ UNCHANGED <<remote, backend, recvars, ghost, project_names, images,
                   mf_exists, disk, fbuf, buf, wq, write_header, err, runs,
                   args_get, TOKEN, failedCall>>

(***************************************************************************)
(* 9. Save DataLad changes                                                 *)
(***************************************************************************)
\* datalad save succeeds: subprocess.run has yet to return
Save ==
    /\ pc = "save"
    /\ ops' = Bump("save")
    /\ pc' = "saved"
    /\ UNCHANGED <<remote, backend, file, loopvars, recvars, ghost, err, runs,
                   args_get, TOKEN, existing_files, failedCall>>

\* subprocess.run returns, the closing messages are printed and the script
\* ends
Done ==
    /\ pc = "saved"
    /\ pc' = "done"
    /\ UNCHANGED <<remote, backend, file, loopvars, recvars, ghost, err, runs,
                   args_get, TOKEN, existing_files, ops, failedCall>>

\* datalad save exits non-zero: the script has yet to raise
SaveFails ==
    /\ pc = "save"
    /\ ops' = Bump("save")
    /\ pc' = "raising"
    /\ UNCHANGED <<remote, backend, file, loopvars, recvars, ghost, err, runs,
                   args_get, TOKEN, existing_files, failedCall>>

\* manifests found in the dataset directory: written by earlier runs, or
\* with a header that lacks the target_path column, or with a data row that
\* ends before the target_path field
HeaderNoTarget == <<"project", "candidate", "visit", "filename", "modality",
                    "url">>
rowA == ManifestRow(loris, recA, RecTarget(loris, recA), RecModality(recA),
                    RecUrl(recA))
rowNoTarget == <<"loris", "123", "V1", "sub-123_ses-V1_T2w.mnc", "anat",
                 "http://x/api/a">>
rowShort == <<"loris", "123", "V1">>
FoundManifests ==
    { <<>>, <<Header>>, <<Header, rowA>>, <<Header, rowShort>>,
      <<Header, rowA, rowShort>>, <<HeaderNoTarget>>,
      <<HeaderNoTarget, rowNoTarget>> }

\* the API serves no project or one project, and the dataset directory
\* holds no manifest or one of the manifests above
InitLoad ==
    /\ apiProjects \in {<<>>, <<loris>>}
    /\ apiImages \in [Range(apiProjects) -> ImageLists]
    /\ \/ mf_exists = FALSE /\ disk = <<>>
       \/ mf_exists = TRUE /\ disk \in FoundManifests
    /\ Fresh

\* records whose Link is longer than BufferSize, or than ChunkSize: the rows
\* do not fit into the buffers of f_out
Dbl(x) == x \o x
LongName == Dbl(Dbl(Dbl(Dbl(Dbl(Dbl(Dbl(Dbl("0123456789abcdef"))))))))
recLongA == [recA EXCEPT !.Link = "/" \o LongName \o "/a"]
recLongC == [recC EXCEPT !.Link = "/" \o LongName \o "/c"]
recLongD == [Candidate |-> "123", Visit |-> "V1", ScanType |-> DWI,
             Link |-> "/" \o Dbl(LongName) \o "/d"]
\* a row that with the header exceeds the text layer's chunk, alone does not
LongNameE ==
    LongName \o Dbl(Dbl(Dbl(Dbl(Dbl(Dbl(Dbl("0123456789abcdef")))))))
             \o Dbl(Dbl(Dbl(Dbl(Dbl(Dbl("0123456789abcdef"))))))
             \o Dbl(Dbl(Dbl(Dbl(Dbl("0123456789abcdef")))))
             \o Dbl(Dbl(Dbl(Dbl("0123456789abcdef"))))
             \o Dbl(Dbl("0123456789abcdef"))
             \o Dbl("0123456789abcdef")
recLongE == [Candidate |-> "123", Visit |-> "V1", ScanType |-> FIELDMAP,
             Link |-> "/" \o LongNameE \o "/e"]
LongImageLists ==
    UNION {[1..n -> {recLongA, recLongC, recLongD, recLongE}] : n \in 0..MaxImages}

\* the API serves one project whose records have long links
InitLong ==
    /\ apiProjects = <<loris>>
    /\ apiImages \in [Range(apiProjects) -> LongImageLists]
    /\ mf_exists = FALSE
    /\ disk = <<>>
    /\ Fresh

Next ==
    \/ StartRun
    \/ LoginOk
    \/ LoginFails
    \/ CreateDataset
    \/ ConfigAllowedAddresses
    \/ ConfigHttpHeaders
    \/ InitDatasetFails
    \/ LoadManifest
    \/ FetchProjects
    \/ FetchProjectsFails
    \/ OpenManifest
    \/ FetchImages
    \/ FetchImagesFails
    \/ SkipRecord
    \/ Mkdir
    \/ Addurl
    \/ AddurlFails
    \/ WriteRow
    \/ Materialize
    \/ MaterializeFails
    \/ RaiseCalledProcessError
    \/ CloseManifest
    \/ SysWrite
    \/ Finish
    \/ Save
    \/ Done
    \/ SaveFails
    \/ Kill

Spec == Init /\ [][Next]_vars

SpecResolve == InitResolve /\ [][Next]_vars

SpecLoad == InitLoad /\ [][Next]_vars

SpecLong == InitLong /\ [][Next]_vars

(***************************************************************************)
(* Properties                                                              *)
(***************************************************************************)
IsPrefix(a, b) == Len(a) <= Len(b) /\ SubSeq(b, 1, Len(a)) = a

\* the data rows of a manifest, and their target_path column
ManifestData(rows) == SelectSeq(rows, LAMBDA r : r # Header)
TargetPaths(rows) == [i \in 1..Len(rows) |-> rows[i][6]]
RegPaths == [i \in 1..Len(regLog) |-> regLog[i].path]

NoDuplicates(q) == \A i, j \in 1..Len(q) : q[i] = q[j] => i = j

\* the rows of a sequence of write(2) calls
RECURSIVE Flat(_)
Flat(q) == IF q = <<>> THEN <<>> ELSE Head(q) \o Flat(Tail(q))

\* what the manifest holds, on disk and in the buffers of f_out
Written == disk \o Flat(wq) \o fbuf \o buf

\* C1: when the previous run ran to completion (and no run was ever killed),
\* the current run against the same remote projects and records issues no
\* addurl call and appends no manifest row.
C1_SecondRunRegistersNothing ==
    (prevDone /\ ~crashed) =>
        /\ ops.addurl = 0
        /\ ops.row = 0
        /\ Len(regLog) = reg0
        /\ Written = disk0

\* a second run has completed after a first one that registered something
C1_Witness ==
    /\ prevDone
    /\ ~crashed
    /\ pc = "done"
    /\ reg0 >= 1
    /\ ops.skip >= 1

\* C2: over any sequence of runs, killed runs included, the manifest never
\* holds two data rows with the same target_path and no run registers a
\* destination path that an earlier run registered.
C2_Claimed ==
    /\ NoDuplicates(TargetPaths(ManifestData(disk)))
    /\ \A i \in 1..reg0 : \A j \in (reg0 + 1)..Len(regLog) :
           regLog[i].path # regLog[j].path

\* the record of project p at position k is the first of its project with
\* its destination path
FirstWithPath(p, k) ==
    \A m \in 1..(k - 1) :
        PathStr(RecTarget(p, apiImages[p][m])) # PathStr(RecTarget(p, apiImages[p][k]))

\* C3: as long as no run was killed, no destination path is registered twice,
\* in one run or over several, and the registration of a path carries the
\* url of the first record that resolves to it.
C3_DedupByDestinationPath ==
    ~crashed =>
        /\ NoDuplicates(RegPaths)
        /\ \A i \in 1..Len(regLog) :
               \E p \in Range(apiProjects) : \E k \in 1..Len(apiImages[p]) :
                   /\ regLog[i].url = RecUrl(apiImages[p][k])
                   /\ regLog[i].path = PathStr(RecTarget(p, apiImages[p][k]))
                   /\ FirstWithPath(p, k)

\* a completed run skipped a record whose path was registered with another url
C3_Witness ==
    /\ ~crashed
    /\ pc = "done"
    /\ ops.skip >= 1
    /\ \E p \in Range(apiProjects) : \E k, m \in 1..Len(apiImages[p]) :
           /\ k < m
           /\ PathStr(RecTarget(p, apiImages[p][m])) = PathStr(RecTarget(p, apiImages[p][k]))
           /\ apiImages[p][m].Link # apiImages[p][k].Link
           /\ \E i \in 1..Len(regLog) : regLog[i].url = RecUrl(apiImages[p][k])

\* C4: when a run has completed or was aborted by an exception (and no run
\* was ever killed), the manifest has one data row per successful
\* registration of all runs, in the order of the registrations, under one
\* header, and the rows it had when the run started are a prefix of it.
C4_RowsMatchRegistrations ==
    (~crashed /\ pc \in {"done", "aborted"}) =>
        /\ TargetPaths(ManifestData(disk)) = RegPaths
        /\ Len(ManifestData(disk)) = Len(regLog)
        /\ IsPrefix(disk0, disk)
        /\ Written = disk

\* a run that found rows of an earlier run registered a record and was then
\* aborted by a failed call
C4_Witness ==
    /\ ~crashed
    /\ pc = "aborted"
    /\ failedCall
    /\ reg0 >= 1
    /\ Len(regLog) > reg0
    /\ Len(ManifestData(disk)) = 2

\* a registration of the backend that has no row in the manifest file
Unrecorded ==
    {i \in 1..Len(regLog) :
        \A k \in 1..Len(disk) : disk[k][6] # regLog[i].path}

\* C5: the row of a record is in the manifest file before the loop starts on
\* the next record, so that when the process is killed at most the record in
\* progress is registered without a row in the file.
C5_Claimed ==
    /\ pc \in {"record", "fetch"} => ManifestData(fbuf \o buf) = <<>>
    /\ pc = "killed" => Cardinality(Unrecorded) <= 1

\* C6: once the manifest file exists and no run is in progress, the file
\* starts with the header and holds no other header row, also after runs
\* that were aborted or killed.
C6_Claimed ==
    (mf_exists /\ pc \in Stopped) =>
        /\ disk # <<>>
        /\ disk[1] = Header
        /\ \A i \in 2..Len(disk) : disk[i] # Header

AllProjectsEmpty ==
    \A p \in Range(apiProjects) : apiImages[p] = <<>>

\* C7 as claimed: a run that started with the manifest absent and in which
\* every project returned zero records completes without leaving a manifest
\* that consists of the header only.
C7_Claimed ==
    (pc = "done" /\ write_header /\ AllProjectsEmpty) => disk # <<Header>>

\* C7: projects that return zero records raise no error and append nothing
\* to the manifest: all of them are listed, the commit is issued, and the
\* manifest holds what it held at the start plus the header that was written
\* at open because the file was absent, so that such a run leaves a manifest
\* that consists of the header only.
C7_EmptyProjectsWriteNothing ==
    AllProjectsEmpty =>
        /\ (f_out \in {"open", "closed", "finalized"}) =>
               Written = disk0 \o (IF write_header THEN <<Header>> ELSE <<>>)
        /\ (pc = "done") =>
               /\ err = "none"
               /\ ops.list = Len(project_names)
               /\ ops.save = 1
               /\ write_header => disk = <<Header>>

\* a run over two projects without records has completed from an absent manifest
C7_Witness ==
    /\ pc = "done"
    /\ write_header
    /\ AllProjectsEmpty
    /\ Len(project_names) = 2
    /\ ops.list = 2
    /\ disk = <<Header>>

\* the layout <prefix><project>/sub-<c>/ses-<v>/<modality>/sub-<c>_ses-<v>_<suffix>.mnc
Layout(prefix, p, c, v, m, sfx) ==
    prefix \o p \o "/sub-" \o c \o "/ses-" \o v \o "/" \o m
           \o "/sub-" \o c \o "_ses-" \o v \o "_" \o sfx \o ".mnc"

Modalities == {"anat", "fmap", "dwi", "misc"}
Suffixes(st) == {"T1w", "T2w", "epi", "dwi", Str(st), Str(Lower(st))}

\* the destination paths of the given layout for record r of project p
LayoutPaths(prefix, p, r) ==
    {Layout(prefix, Str(p), r.Candidate, r.Visit, m, sfx) :
        m \in Modalities, sfx \in Suffixes(r.ScanType)}

\* every dedup key, registration target and manifest target_path is the
\* path d, and the row's filename and modality are its last two components
UsesPath(d) ==
    /\ existing_files \subseteq {d}
    /\ \A i \in 1..Len(regLog) : regLog[i].path = d
    /\ target # <<>> => PathStr(target) = d
    /\ \A i \in 1..Len(ManifestData(Written)) :
           LET row == ManifestData(Written)[i]
           IN  /\ row[6] = d
               /\ \E m \in Modalities : \E sfx \in Suffixes(apiImages[apiProjects[1]][1].ScanType) :
                      /\ row[5] = m
                      /\ d = Layout("data/", row[1], row[2], row[3], m, sfx)
                      /\ row[4] = "sub-" \o row[2] \o "_ses-" \o row[3] \o "_" \o sfx \o ".mnc"

t2_flair == <<"t","2","_","f","l","a","i","r">>

\* C8 as claimed: the destination path of the one record the API serves
\* starts with the project: <project>/sub-<c>/ses-<v>/<modality>/<name>.
C8_Claimed ==
    \E d \in LayoutPaths("", apiProjects[1], apiImages[apiProjects[1]][1]) :
        /\ existing_files \subseteq {d}
        /\ \A i \in 1..Len(regLog) : regLog[i].path = d
        /\ target # <<>> => PathStr(target) = d

\* C8: for every project, candidate, visit and scan type, the destination
\* path used as dedup key, as registration target and as manifest
\* target_path is data/<project>/sub-<c>/ses-<v>/<modality>/
\* sub-<c>_ses-<v>_<suffix>.mnc, with "data" as first component and the
\* project as second (project loris, candidate 123, visit V1, scan type
\* t2_flair: data/loris/sub-123/ses-V1/anat/sub-123_ses-V1_T2w.mnc).
C8_DestinationPath ==
    LET p == apiProjects[1]
        r == apiImages[p][1]
    IN  /\ \E d \in LayoutPaths("data/", p, r) : UsesPath(d)
        /\ (p = loris /\ r.Candidate = "123" /\ r.Visit = "V1" /\ r.ScanType = t2_flair)
               => UsesPath("data/loris/sub-123/ses-V1/anat/sub-123_ses-V1_T2w.mnc")

\* the example record was registered, recorded and, in a later run, skipped
C8_Witness ==
    /\ apiProjects = <<loris>>
    /\ apiImages[loris][1] = [Candidate |-> "123", Visit |-> "V1",
                              ScanType |-> t2_flair, Link |-> "/a"]
    /\ pc = "done"
    /\ ops.skip = 1
    /\ Len(regLog) = 1
    /\ Len(ManifestData(disk)) = 1
    /\ existing_files # {}

\* the prefix matches the start of the scan type whatever the letter case
PrefixAnyCase(st, prefix) ==
    /\ Len(st) >= Len(prefix)
    /\ \A i \in 1..Len(prefix) : LowerChar(st[i]) = prefix[i]

\* the table of the claim: no match gives the scan type as given
ClaimedRule(st) ==
    IF PrefixAnyCase(st, T1) THEN <<"anat", "T1w">>
    ELSE IF PrefixAnyCase(st, T2) THEN <<"anat", "T2w">>
    ELSE IF PrefixAnyCase(st, FIELDMAP) THEN <<"fmap", "epi">>
    ELSE IF PrefixAnyCase(st, DWI) THEN <<"dwi", "dwi">>
    ELSE <<"misc", Str(st)>>

\* C9: bids_path gives every scan type the modality and the suffix of the
\* first rule whose prefix matches it case-insensitively, and (misc, the
\* scan type in its original letter case) when no rule matches.
C9_Claimed ==
    target # <<>> =>
        LET r == apiImages[apiProjects[1]][1]
            ms == ClaimedRule(r.ScanType)
        IN  /\ modality = ms[1]
            /\ target[5] = ms[1]
            /\ target[6] = "sub-" \o r.Candidate \o "_ses-" \o r.Visit
                               \o "_" \o ms[2] \o ".mnc"

\* C10: once an addurl or a get call of a run has failed, the run is over:
\* subprocess.run raises CalledProcessError and the process exits (writing
\* out what f_out buffers), unless it is killed first, and the only other
\* step that follows is the start of another run, so no listing,
\* registration, manifest append, materialization or commit follows the
\* failure and the loop does not go on to another record; a run that ends by
\* itself after the failure ends with CalledProcessError.
C10_FailureIsFatal ==
    [][failedCall =>
          /\ pc \in {"raising", "exiting", "aborted", "killed"}
          /\ pc = "raising" => err = "none"
          /\ pc \in {"exiting", "aborted"} => err = "CalledProcessError"
          /\ regLog' = regLog
          /\ \/ /\ pc = "raising"
                /\ pc' \in {"exiting", "killed"}
                /\ ops' = ops
                /\ existing_files' = existing_files
                /\ Written' = Written \/ pc' = "killed"
             \/ /\ pc = "exiting"
                /\ pc' \in {"exiting", "aborted", "killed"}
                /\ ops' = ops
                /\ existing_files' = existing_files
                /\ Written' = Written \/ pc' = "killed"
             \/ /\ pc \in {"aborted", "killed"}
                /\ pc' = "login"
                /\ runs' = runs + 1
                /\ ops' = NoOps
                /\ disk' = disk]_vars

\* a registration or a materialization failed while the project had a
\* further record to go on to
C10_Witness ==
    /\ failedCall
    /\ pc = "aborted"
    /\ ii < Len(images)
    /\ ops.addurl >= 1

\* the records the API serves for the projects of q, in order
RECURSIVE Flatten(_)
Flatten(q) ==
    IF q = <<>> THEN <<>>
    ELSE [k \in 1..Len(apiImages[Head(q)]) |->
             [p |-> Head(q), im |-> apiImages[Head(q)][k]]]
         \o Flatten(Tail(q))

\* the positions of a run whose manifest load went through
AfterLoad == {"projects", "open", "fetch", "record", "addurl", "write",
              "writing", "get", "closing", "save", "saved", "raising"}

\* C11: in every run datalad save is issued at most once; when it is
\* issued every project has been listed, every record has been skipped or
\* registered, no call has failed and the manifest is closed; a completed
\* run has issued it exactly once; and nothing of the run follows it: the
\* next step is the start of another run.
C11_SaveOnceAtTheEnd ==
    /\ [](/\ ops.save <= 1
          /\ pc = "done" => ops.save = 1
          /\ ops.save = 1 =>
                /\ pc \in {"saved", "done", "raising", "exiting", "aborted",
                          "killed"}
                /\ ~failedCall
                /\ f_out = "closed"
                /\ ops.list = Len(project_names)
                /\ Range(project_names) = Range(apiProjects)
                /\ ops.skip + ops.addurl = TotalImages(apiProjects, apiImages)
                /\ ops.row = ops.addurl
                /\ args_get => ops.get = ops.row)
    /\ [][ops.save = 1 =>
             /\ \/ pc' = "login" /\ ops' = NoOps
                \/ pc' \in {"done", "exiting", "aborted", "killed"} /\ ops' = ops
             /\ regLog' = regLog
             /\ disk' = disk]_vars

\* a run over two projects that registered nothing has completed
C11_Witness ==
    /\ pc = "done"
    /\ ops.save = 1
    /\ ops.addurl = 0
    /\ ops.skip >= 1
    /\ Len(project_names) = 2

\* C12: as long as no run was killed, a path whose materialization failed
\* has its row in the manifest file once the failing run has aborted, is
\* registered exactly once over all runs, is in the dedup set of every later
\* run from the load on, and is never the target of another datalad get,
\* whether or not the later run has args.get set.
C12_FailedGetIsNotRetried ==
    ~crashed =>
        \A p \in getFailed :
            /\ Cardinality({i \in 1..Len(regLog) : regLog[i].path = p}) = 1
            /\ pc \in Stopped =>
                   Cardinality({k \in 1..Len(disk) : disk[k] # Header /\ disk[k][6] = p}) = 1
            /\ (~failedCall /\ pc \in AfterLoad) =>
                   p \in existing_files
            /\ (~failedCall /\ pc \in {"addurl", "write", "writing", "get"}) =>
                   PathStr(target) # p

\* a later run with args.get set has skipped the record and completed
C12_Witness ==
    /\ ~crashed
    /\ getFailed # {}
    /\ pc = "done"
    /\ args_get
    /\ ops.skip >= 1
    /\ ops.get = 0
    /\ ops.addurl = 0

\* a data row of the manifest has no target_path field
MissingTargetPath(rows) ==
    \E i \in 2..Len(rows) :
        \A k \in 1..Len(rows[i]) : k > Len(rows[1]) \/ rows[1][k] # "target_path"

\* C13: a run whose load went through found no data row without the
\* target_path field in the manifest, and its dedup set holds only the
\* target_path values of the rows: a failed load comes before any
\* registration, manifest write or commit.
C13_Claimed ==
    /\ (mf0 /\ pc \in AfterLoad) =>
           ~MissingTargetPath(disk0)
    /\ "None" \notin existing_files

\* C14: when the API returns an empty project collection, no run lists
\* records, registers, materializes or commits, no run gets past the project
\* list or completes, and the manifest file is neither created nor changed:
\* it exists exactly if it existed before and holds the rows it held.
C14_NoProjectsIsFatal ==
    apiProjects = <<>> =>
        /\ ops = NoOps
        /\ regLog = <<>>
        /\ pc \in {"idle", "login", "init", "config", "auth", "load",
                   "projects", "exiting", "aborted", "killed"}
        /\ f_out = "unopened"
        /\ Written = disk
        /\ mf_exists = mf0
        /\ disk = disk0

\* a run that found a manifest with a row has failed at the empty project list
C14_Witness ==
    /\ apiProjects = <<>>
    /\ pc = "aborted"
    /\ err = "RuntimeError"
    /\ TOKEN # NoToken
    /\ mf_exists
    /\ disk = <<Header, rowA>>
    /\ existing_files # {}

\* C15: a run whose login failed has no token and has done nothing: no
\* dataset creation, no annex.http-headers configuration, no listing, no
\* registration, no manifest open or write, no commit; and a run that has
\* got past the dataset set-up, in particular one that has registered a
\* record, has a token and has configured annex.http-headers with it.
C15_LoginFirst ==
    /\ (pc = "aborted" /\ TOKEN = NoToken) =>
           /\ ops = NoOps
           /\ Len(regLog) = reg0
           /\ f_out = "unopened"
           /\ mf_exists = mf0
           /\ disk = disk0
           /\ annex_headers # Token(runs)
           /\ runs = 1 => (~ds_created /\ annex_headers = NoToken)
    /\ (Len(regLog) > reg0 \/ ops # NoOps \/ f_out # "unopened") =>
           /\ TOKEN = Token(runs)
           /\ annex_headers = TOKEN
           /\ ds_created

\* the login of a later run failed after an earlier run had registered a record
C15_Witness ==
    /\ pc = "aborted"
    /\ TOKEN = NoToken
    /\ runs = 2
    /\ reg0 >= 1
    /\ annex_headers = Token(1)

\* the destination paths this run has registered, and those of the rows it
\* has written (in the file or in the buffers of f_out)
RunRegs == SubSeq(RegPaths, reg0 + 1, Len(regLog))
RunRows ==
    TargetPaths(ManifestData(SubSeq(Written, Len(disk0) + 1, Len(Written))))

\* C16: records are processed one at a time: the rows a run has written are
\* the registrations it has made, in the same order, less the one
\* registration whose row is about to be written; the dedup set holds the
\* paths of these rows (of all but the last while writerow has not returned);
\* with args.get every row but the one whose get is due has had its get; a
\* failed registration leaves no row.
C16_OneRecordAtATime ==
    f_out \in {"open", "closed", "finalized"} =>
        /\ RunRows = SubSeq(RunRegs, 1, Len(RunRegs) - (IF pc = "write" THEN 1 ELSE 0))
        /\ ops.row = Len(RunRows) - (IF pc = "writing" THEN 1 ELSE 0)
        /\ existing_files = loaded \cup Range(SubSeq(RunRows, 1, ops.row))
        /\ ops.get = IF args_get
                     THEN ops.row - (IF pc = "get" THEN 1 ELSE 0)
                     ELSE 0
        /\ pc = "write" =>
               /\ RunRegs[Len(RunRegs)] = PathStr(target)
               /\ PathStr(target) \notin existing_files
        /\ pc \in {"writing", "get"} => RunRows[Len(RunRows)] = PathStr(target)

\* the second record of a run is registered and recorded, its get is due
C16_Witness ==
    /\ pc = "get"
    /\ ops.row = 2
    /\ ops.get = 1
    /\ Len(ManifestData(fbuf \o buf)) = 2

\* C17: a step taken at a record whose destination path is in the dedup set
\* creates no directory, registers nothing, writes no row, issues no get and
\* leaves the dedup set as it was, with or without args.get; a get is due or
\* issued only with args.get, and only for the path of the registration made
\* last in this run, once per registration.
C17_SkipHasNoEffect ==
    /\ [](/\ ops.get > 0 => args_get
          /\ pc = "get" =>
                /\ args_get
                /\ Len(regLog) > reg0
                /\ regLog[Len(regLog)].path = PathStr(target)
                /\ ops.get = ops.addurl - 1
          /\ (pc \in Running \ {"get"} /\ args_get /\ ~failedCall) =>
                ops.get = Len(regLog) - reg0
                              - (IF pc \in {"write", "writing"} THEN 1 ELSE 0))
    /\ [][(pc = "record" /\ PathStr(RecTarget(project, img)) \in existing_files) =>
             /\ ops'.mkdir = ops.mkdir
             /\ ops'.addurl = ops.addurl
             /\ ops'.row = ops.row
             /\ ops'.get = ops.get
             /\ ops'.save = ops.save
             /\ regLog' = regLog
             /\ existing_files' = existing_files
             /\ disk' = disk
             /\ mf_exists' = mf_exists
             /\ pc' \in {"record", "fetch", "killed"}
             /\ pc' # "killed" =>
                    (buf' = buf /\ fbuf' = fbuf /\ ops'.skip = ops.skip + 1)]_vars

\* a run with args.get has registered and fetched one record and skipped another
C17_Witness ==
    /\ pc = "done"
    /\ args_get
    /\ ops.skip = 1
    /\ ops.addurl = 1
    /\ ops.get = 1

\* the sequence s holds its strings in strictly ascending code point order
IsAscending(s) == \A i \in 1..(Len(s) - 1) : StrLess(s[i], s[i + 1])

\* the names of the set S in ascending order
Ascending(S) ==
    CHOOSE s \in [1..Cardinality(S) -> S] : Range(s) = S /\ IsAscending(s)

\* the registrations made for the records recs, taken in order, by a run that
\* starts from the dedup set seen
RECURSIVE ExpectedRegs(_, _)
ExpectedRegs(recs, seen) ==
    IF recs = <<>> THEN <<>>
    ELSE LET path == PathStr(RecTarget(Head(recs).p, Head(recs).im))
         IN  IF path \in seen THEN ExpectedRegs(Tail(recs), seen)
             ELSE <<[path |-> path, url |-> RecUrl(Head(recs).im)]>>
                  \o ExpectedRegs(Tail(recs), seen \cup {path})

\* the records of all projects: projects ascending by name, records of a
\* project in the order of the API
RunOrder == Flatten(Ascending(Range(apiProjects)))

\* C18: the projects are taken in ascending order of their names whatever
\* order the API gave; the records of a project in the API's order; at every
\* point of the loop the registrations of the run are those of the records
\* handled so far, taken in that order and started from the loaded dedup set,
\* and the rows written are these registrations: the sequence depends on the
\* set of projects and their record sequences, not on the API's project order.
C18_SortedProjectsApiOrderRecords ==
    (pc \in {"open", "fetch", "record", "addurl", "write", "writing", "get",
             "closing", "save", "saved", "done"}) =>
        /\ project_names = Ascending(Range(apiProjects))
        /\ Range(apiProjects) = {loris, Zoo} => project_names = <<Zoo, loris>>
        /\ pc \in {"record", "addurl", "write", "writing", "get"} =>
               /\ images = apiImages[project_names[pi]]
               /\ ops.list = pi
               /\ RunOrder[ops.skip + ops.addurl
                               + (IF pc \in {"record", "addurl"} THEN 1 ELSE 0)]
                      = [p |-> project, im |-> img]
        /\ pc \in {"closing", "save", "saved", "done"} =>
               ops.skip + ops.addurl = Len(RunOrder)
        /\ pc # "open" =>
               /\ SubSeq(regLog, reg0 + 1, Len(regLog))
                      = ExpectedRegs(SubSeq(RunOrder, 1, ops.skip + ops.addurl), loaded)
               /\ pc # "write" => RunRows = RunRegs

\* the API gave loris before Zoo; the completed run registered Zoo's record
\* first and loris's second
C18_Witness ==
    /\ pc = "done"
    /\ apiProjects = <<loris, Zoo>>
    /\ Len(apiImages[Zoo]) = 1
    /\ Len(apiImages[loris]) = 1
    /\ Len(regLog) = reg0 + 2
    /\ regLog[reg0 + 1].path = PathStr(RecTarget(Zoo, apiImages[Zoo][1]))
    /\ regLog[reg0 + 2].path = PathStr(RecTarget(loris, apiImages[loris][1]))

\* C19: a run that opened the manifest and has ended, completed or aborted,
\* has closed the handle by f_out.close().
C19_Claimed ==
    (pc \in {"done", "aborted"} /\ f_out # "unopened") => f_out = "closed"

\* C20: between two records of a run (and after the last) the dedup set is
\* the set loaded from the manifest at startup united with the target paths
\* of the rows this run has written, and holds every path this run
\* registered; within a run the set never loses an element.
C20_DedupSetIsLoadedPlusWritten ==
    /\ [](pc \in {"open", "fetch", "record", "save", "saved", "done"} =>
             /\ existing_files = loaded \cup Range(RunRows)
             /\ \A i \in (reg0 + 1)..Len(regLog) :
                    regLog[i].path \in existing_files)
    /\ [][pc' # "login" => existing_files \subseteq existing_files']_vars

\* a run that loaded a path from the manifest has skipped its record and
\* written a row for another
C20_Witness ==
    /\ pc \in {"record", "fetch"}
    /\ loaded # {}
    /\ ops.skip >= 1
    /\ ops.row >= 1
    /\ Cardinality(existing_files) = 2

====
